---- MODULE Spec2Model ----
(***************************************************************************)
(* The QUIC connection state machine of aioquic/connection.py              *)
(* (QuicConnection): datagram_received, pending_datagrams and the helpers  *)
(* they call.  The TLS engine, the crypto pair, the packet codec, the      *)
(* buffer and the range set live outside connection.py; they are modelled  *)
(* from their documented contracts.                                        *)
(***************************************************************************)
EXTENDS Integers, Sequences, FiniteSets, TLC

\* ------------------------------------------------------------ bounds
\* packet numbers of received packets range over 0..MaxPn
MaxPn == 1
\* a pending_datagrams invocation starts only while every send packet
\* number is below MaxSend; with lazy pulls, while no epoch has emitted
\* more than MaxSend datagrams
MaxSend == 2

\* ------------------------------------------------------------ constants
PACKET_MAX_SIZE == 1280
SEND_PN_SIZE == 2
SEND_BUFFER_CAPACITY == 4096
AEAD_TAG_SIZE == 16
CID_SIZE == 8

Epoch == {"INITIAL", "HANDSHAKE", "ONE_RTT"}
\* application packets written before the handshake ones
EpochOrderReversed == <<"ONE_RTT", "HANDSHAKE", "INITIAL">>

\* the order in which pending_datagrams visits the epochs
EpochOrder == <<"INITIAL", "HANDSHAKE", "ONE_RTT">>

PACKET_TYPE_INITIAL == "INITIAL"
PACKET_TYPE_HANDSHAKE == "HANDSHAKE"
PACKET_TYPE_SHORT == "SHORT"

get_epoch(packet_type) ==
    IF packet_type = PACKET_TYPE_INITIAL THEN "INITIAL"
    ELSE IF packet_type = PACKET_TYPE_HANDSHAKE THEN "HANDSHAKE"
    ELSE "ONE_RTT"

Role == {"client", "server"}
Other(role) == IF role = "client" THEN "server" ELSE "client"
RoleOf(is_client) == IF is_client THEN "client" ELSE "server"

\* ------------------------------------------------------------ connection ids
\* os.urandom(8) draws from this pool; "" is the empty CID of a short header
CidPool == {"c1", "c2"}
HostPool == {"h1"}
CidLen(cid) == IF cid = "" THEN 0 ELSE CID_SIZE

\* ------------------------------------------------------------ crypto pair
\* A directional context is NoKey (invalid) or the identity of its keys.
NoKey == [kind |-> "none", cid |-> "", role |-> ""]
InitialKey(cid, role) == [kind |-> "initial", cid |-> cid, role |-> role]
TrafficKey(epoch, role) == [kind |-> epoch, cid |-> "", role |-> role]
BadKey == [kind |-> "bad", cid |-> "", role |-> ""]

is_valid(ctx) == ctx # NoKey

\* CryptoPair(): both directions invalid
CryptoPair == [send |-> NoKey, recv |-> NoKey]

\* setup_initial: the client sends with the client initial secret and
\* receives with the server one, the server the other way round
setup_initial(cid, is_client) ==
    [send |-> InitialKey(cid, RoleOf(is_client)),
     recv |-> InitialKey(cid, Other(RoleOf(is_client)))]

teardown(ctx) == NoKey

\* decrypt_packet succeeds when the context holds the keys the packet was
\* protected with
decrypt_ok(ctx, packet) == is_valid(ctx) /\ ctx = packet.key

\* ------------------------------------------------------------ sizes
VarintSize(v) ==
    IF v < 64 THEN 1 ELSE IF v < 16384 THEN 2 ELSE IF v < 1073741824 THEN 4 ELSE 8

\* push_quic_header: first byte, version, two CID length bytes and CIDs,
\* the token length of an Initial, a 2-byte length and the packet number
LongHeaderSize(packet_type, dcid, scid) ==
    1 + 4 + 1 + CidLen(dcid) + 1 + CidLen(scid)
      + (IF packet_type = PACKET_TYPE_INITIAL THEN 1 ELSE 0)
      + 2 + SEND_PN_SIZE

\* _write_application: first byte, peer CID, 2-byte packet number
ShortHeaderSize(dcid) == 1 + CidLen(dcid) + SEND_PN_SIZE

\* push_crypto_frame: offset 0 and a 2-byte length before the data
CryptoFrameOverhead == VarintSize(0) + 2

Max(S) == CHOOSE x \in S : \A y \in S : y <= x
\* number of disjoint ranges of a range set
RangeCount(S) == Cardinality({x \in S : x + 1 \notin S})

\* push_ack_frame: largest, delay 0, range count, first range, then a
\* (gap, length) pair per further range; every value here is below 64
AckFrameSize(S) ==
    VarintSize(Max(S)) + VarintSize(0) + VarintSize(RangeCount(S) - 1)
      + VarintSize(0) + 2 * (RangeCount(S) - 1)

\* ------------------------------------------------------------ frames
Frame(type, data, ranges, ok) ==
    [type |-> type, data |-> data, ranges |-> ranges, ok |-> ok]
PADDING == Frame("PADDING", <<>>, {}, TRUE)
PING == Frame("PING", <<>>, {}, TRUE)
ACK(S) == Frame("ACK", <<>>, S, TRUE)
CRYPTO(data) == Frame("CRYPTO", data, {}, TRUE)
NEW_CONNECTION_ID == Frame("NEW_CONNECTION_ID", <<>>, {}, TRUE)
\* a frame type the connection does not know (0x3f)
UNKNOWN == Frame("UNKNOWN", <<>>, {}, TRUE)
\* an ACK frame cut short: pulling its body fails
TRUNCATED == Frame("ACK", <<>>, {}, FALSE)

\* ------------------------------------------------------------ buffer
EmptyBuffer == [data |-> <<>>, len |-> 0]
BufferFits(buf, n) == buf.len + n <= SEND_BUFFER_CAPACITY
BufferPush(buf, msgs, n) == [data |-> buf.data \o msgs, len |-> buf.len + n]

\* ------------------------------------------------------------ connection
\* QuicConnection.__init__
NewConnection(is_client, host_cid, peer_cid) ==
    [is_client |-> is_client,
     host_cid |-> host_cid,
     peer_cid |-> peer_cid,
     peer_cid_set |-> FALSE,
     tls |-> IF is_client THEN "CLIENT_HANDSHAKE_START"
                          ELSE "SERVER_EXPECT_CLIENT_HELLO",
     send_buffer |-> EmptyBuffer,
     send_ack |-> FALSE,
     ack |-> [e \in Epoch |-> {}],
     crypto |-> [e \in Epoch |-> CryptoPair],
     packet_number |-> [e \in Epoch |-> 0],
     crypto_initialized |-> FALSE]

\* QuicConnection._update_traffic_key
_update_traffic_key(s, direction, epoch, secret) ==
    IF direction = "ENCRYPT"
    THEN [s EXCEPT !.crypto[epoch].send = secret]
    ELSE [s EXCEPT !.crypto[epoch].recv = secret]

\* ------------------------------------------------------------ TLS engine
\* The engine is a black box to the connection: handle_message consumes
\* handshake bytes, appends its answer to the send buffer and installs
\* traffic secrets through update_traffic_key_cb.  It is modelled as the
\* TLS 1.3 handshake: ClientHello; ServerHello and the rest of the server
\* flight (EncryptedExtensions .. Finished); the client Finished; and, when
\* the engine issues one, a session ticket after the handshake.
\* opt.n is the length of what the engine writes, opt.ticket whether a
\* server engine issues a ticket.
TlsMessages ==
    {"ClientHello", "ServerHello", "ServerFlight", "ClientFinished",
     "NewSessionTicket"}

\* the encryption level the engine produces a message at
MessageLevel(m) ==
    CASE m \in {"ClientHello", "ServerHello"} -> "INITIAL"
      [] m \in {"ServerFlight", "ClientFinished"} -> "HANDSHAKE"
      [] OTHER -> "ONE_RTT"

\* update_traffic_key_cb(direction, epoch, secret)
TlsInstall(s, direction, epoch) ==
    _update_traffic_key(s, direction, epoch,
        TrafficKey(epoch, IF direction = "ENCRYPT"
                          THEN RoleOf(s.is_client)
                          ELSE Other(RoleOf(s.is_client))))

TlsInstallBoth(s, epoch) ==
    TlsInstall(TlsInstall(s, "DECRYPT", epoch), "ENCRYPT", epoch)

TlsWrite(s, msgs, n) == [s EXCEPT !.send_buffer = BufferPush(@, msgs, n)]

TlsFault(s) == [s |-> s, ok |-> FALSE]
TlsDone(s) == [s |-> s, ok |-> TRUE]

\* the engine consumes one handshake message
tls_handle_one(s, m, opt) ==
    CASE s.tls = "CLIENT_EXPECT_SERVER_HELLO" /\ m = "ServerHello" ->
           TlsDone([TlsInstallBoth(s, "HANDSHAKE")
                      EXCEPT !.tls = "CLIENT_EXPECT_FINISHED"])
      [] s.tls = "CLIENT_EXPECT_FINISHED" /\ m = "ServerFlight" ->
           IF BufferFits(s.send_buffer, opt.n)
           THEN TlsDone([TlsInstallBoth(TlsWrite(s, <<"ClientFinished">>, opt.n),
                                        "ONE_RTT")
                           EXCEPT !.tls = "CLIENT_POST_HANDSHAKE"])
           ELSE TlsFault(s)
      [] s.tls = "CLIENT_POST_HANDSHAKE" /\ m = "NewSessionTicket" ->
           TlsDone(s)
      [] s.tls = "SERVER_EXPECT_CLIENT_HELLO" /\ m = "ClientHello" ->
           IF BufferFits(s.send_buffer, opt.n)
           THEN TlsDone([TlsInstall(
                           TlsWrite(TlsInstallBoth(s, "HANDSHAKE"),
                                    <<"ServerHello", "ServerFlight">>, opt.n),
                           "ENCRYPT", "ONE_RTT")
                           EXCEPT !.tls = "SERVER_EXPECT_FINISHED"])
           ELSE TlsFault(s)
      [] s.tls = "SERVER_EXPECT_FINISHED" /\ m = "ClientFinished" ->
           IF ~opt.ticket
           THEN TlsDone([TlsInstall(s, "DECRYPT", "ONE_RTT")
                           EXCEPT !.tls = "SERVER_POST_HANDSHAKE"])
           ELSE IF BufferFits(s.send_buffer, opt.n)
           THEN TlsDone([TlsWrite(TlsInstall(s, "DECRYPT", "ONE_RTT"),
                                  <<"NewSessionTicket">>, opt.n)
                           EXCEPT !.tls = "SERVER_POST_HANDSHAKE"])
           ELSE TlsFault(s)
      [] OTHER -> TlsFault(s)

\* the engine consumes the messages from the i-th on; tls_next goes on
\* after one message was consumed with outcome r
RECURSIVE tls_feed(_, _, _, _)
tls_next(r, data, i, opt) ==
    IF r.ok THEN tls_feed(r.s, data, i + 1, opt) ELSE r
tls_feed(s, data, i, opt) ==
    IF i > Len(data) THEN TlsDone(s)
    ELSE tls_next(tls_handle_one(s, data[i], opt), data, i, opt)

\* tls.Context.handle_message(input_data, output_buf)
tls_handle_message(s, data, opt) ==
    IF data = <<>>
    THEN IF s.tls = "CLIENT_HANDSHAKE_START"
         THEN IF BufferFits(s.send_buffer, opt.n)
              THEN TlsDone([TlsWrite(s, <<"ClientHello">>, opt.n)
                              EXCEPT !.tls = "CLIENT_EXPECT_SERVER_HELLO"])
              ELSE TlsFault(s)
         ELSE TlsDone(s)
    ELSE tls_feed(s, data, 1, opt)

\* ------------------------------------------------------------ receive path
\* what a call raised: "" when it returned normally
NoError == ""

\* QuicConnection._payload_received: the state after the frames, whether
\* the packet was ack-only, and what was raised
RECURSIVE PayloadLoop(_, _, _, _, _)
\* line 146 returned with outcome r: the loop goes on, or the call raises
AfterHandleMessage(r, plain, i, opt) ==
    IF r.ok
    THEN PayloadLoop(r.s, plain, i + 1, FALSE, opt)
    ELSE [s |-> r.s, is_ack_only |-> FALSE, exc |-> "TlsError",
          unknown |-> FALSE]
PayloadLoop(s, plain, i, is_ack_only, opt) ==
    IF i > Len(plain)
    THEN [s |-> s, is_ack_only |-> is_ack_only, exc |-> NoError, unknown |-> FALSE]
    ELSE LET f == plain[i]
         IN CASE f.type \in {"PADDING", "PING"} ->
                   PayloadLoop(s, plain, i + 1, is_ack_only, opt)
              [] f.type = "ACK" ->
                   IF f.ok THEN PayloadLoop(s, plain, i + 1, is_ack_only, opt)
                   ELSE [s |-> s, is_ack_only |-> is_ack_only, exc |-> "FrameError",
                         unknown |-> FALSE]
              [] f.type = "CRYPTO" ->
                   IF ~f.ok
                   THEN [s |-> s, is_ack_only |-> FALSE, exc |-> "FrameError",
                         unknown |-> FALSE]
                   ELSE IF Len(f.data) = 0
                   THEN [s |-> s, is_ack_only |-> FALSE, exc |-> "AssertionError",
                         unknown |-> FALSE]
                   ELSE AfterHandleMessage(
                          tls_handle_message(s, f.data, opt), plain, i, opt)
              [] f.type = "NEW_CONNECTION_ID" ->
                   IF f.ok THEN PayloadLoop(s, plain, i + 1, is_ack_only, opt)
                   ELSE [s |-> s, is_ack_only |-> is_ack_only, exc |-> "FrameError",
                         unknown |-> FALSE]
              [] OTHER ->
                   \* unhandled frame type: warning, break
                   [s |-> s, is_ack_only |-> is_ack_only, exc |-> NoError,
                    unknown |-> TRUE]

_payload_received(s, plain, opt) == PayloadLoop(s, plain, 1, TRUE, opt)

\* lines 103-106: a server derives its Initial keys from the first header
InitialSetup(s, header) ==
    IF ~s.is_client /\ ~s.crypto_initialized
    THEN [s EXCEPT !.crypto["INITIAL"] =
                       setup_initial(header.dcid, s.is_client),
                   !.crypto_initialized = TRUE]
    ELSE s

\* the peer CID taken from every packet (no latch)
LatchPeerCidAlways(s, header) ==
    [s EXCEPT !.peer_cid = header.scid, !.peer_cid_set = TRUE]

\* lines 113-115
LatchPeerCid(s, header) ==
    IF ~s.peer_cid_set
    THEN [s EXCEPT !.peer_cid = header.scid, !.peer_cid_set = TRUE]
    ELSE s

\* the Initial keys kept after an Initial packet
InitialTeardownSkipped(s, epoch) == s

\* lines 122-124
InitialTeardown(s, epoch) ==
    IF epoch = "INITIAL"
    THEN [s EXCEPT !.crypto[epoch].recv = teardown(@),
                   !.crypto[epoch].send = teardown(@)]
    ELSE s

\* lines 118-120
RecordPacket(s, epoch, packet_number, is_ack_only) ==
    [s EXCEPT !.ack[epoch] = @ \cup {packet_number},
              !.send_ack = IF ~is_ack_only THEN TRUE ELSE @]

\* one turn of the loop of datagram_received (lines 97-124): the state
\* after the packet and what was raised; decrypted tells whether
\* decrypt_packet returned
\* lines 117-124, r being what _payload_received gave
AfterPayload(r, epoch, packet) ==
    IF r.exc # NoError
    THEN [s |-> r.s, exc |-> r.exc, decrypted |-> TRUE, nokey |-> "-",
          unknown |-> FALSE]
    ELSE [s |-> InitialTeardown(
                  RecordPacket(r.s, epoch, packet.pn, r.is_ack_only), epoch),
          exc |-> NoError, decrypted |-> TRUE, nokey |-> "-",
          unknown |-> r.unknown]
\* lines 108-124
DecryptPacket(s, epoch, packet, opt) ==
    IF ~decrypt_ok(s.crypto[epoch].recv, packet)
    THEN [s |-> s, exc |-> "DecryptError", decrypted |-> FALSE,
          nokey |-> IF is_valid(s.crypto[epoch].recv) THEN "-" ELSE epoch,
          unknown |-> FALSE]
    ELSE AfterPayload(
           _payload_received(LatchPeerCid(s, packet), packet.frames, opt),
           epoch, packet)
ProcessPacket(s, packet, opt) ==
    IF ~packet.hdr_ok
    THEN [s |-> s, exc |-> "HeaderError", decrypted |-> FALSE, nokey |-> "-",
          unknown |-> FALSE]
    ELSE DecryptPacket(InitialSetup(s, packet), get_epoch(packet.ptype),
                       packet, opt)

\* a packet that holds a frame other than PADDING and ACK
NonAckOnly(packet) ==
    \E i \in 1..Len(packet.frames) :
        packet.frames[i].type \notin {"PADDING", "ACK"}

\* QuicConnection.datagram_received: the packets of the datagram in order,
\* until one raises.  done counts the packets processed to the end,
\* eliciting tells whether one of them was not ack-only, scid is the
\* source CID of the first packet decrypted ("-": none), nokey the epoch
\* whose receive context held no keys when decrypt_packet was called on it
\* ("-": none), unknown the place in the datagram of the first packet whose
\* frames stopped at an unhandled frame type (0: none).
RECURSIVE ReceiveLoop(_, _, _, _)
\* the i-th packet ended with outcome r
AfterPacket(acc, r, pkts, i, opt) ==
    LET scid == IF acc.scid = "-" /\ r.decrypted THEN pkts[i].scid
                ELSE acc.scid
    IN IF r.exc # NoError
       THEN [acc EXCEPT !.s = r.s, !.exc = r.exc, !.scid = scid,
                        !.nokey = r.nokey]
       ELSE ReceiveLoop(
              [acc EXCEPT !.s = r.s, !.scid = scid,
                          !.done = @ + 1,
                          !.eliciting = @ \/ NonAckOnly(pkts[i]),
                          !.unknown = IF @ = 0 /\ r.unknown THEN i ELSE @],
              pkts, i + 1, opt)
ReceiveLoop(acc, pkts, i, opt) ==
    IF i > Len(pkts) THEN acc
    ELSE AfterPacket(acc, ProcessPacket(acc.s, pkts[i], opt), pkts, i, opt)

datagram_received(s, data, opt) ==
    ReceiveLoop([s |-> s, exc |-> NoError, done |-> 0,
                 eliciting |-> FALSE, scid |-> "-", nokey |-> "-",
                 unknown |-> 0],
                data.pkts, 1, opt)

\* QuicConnection.connection_made
connection_made(s, opt) ==
    IF s.is_client
    THEN tls_handle_message(
           [s EXCEPT !.crypto["INITIAL"] = setup_initial(s.peer_cid, s.is_client),
                     !.crypto_initialized = TRUE],
           <<>>, opt)
    ELSE TlsDone(s)

\* ------------------------------------------------------------ send path
\* A datagram: the packets it holds and its length in bytes (0: not known)
Packet(ptype, dcid, scid, pn, key, frames) ==
    [ptype |-> ptype, dcid |-> dcid, scid |-> scid, pn |-> pn, key |-> key,
     frames |-> frames, hdr_ok |-> TRUE]
Datagram(pkts, size) == [pkts |-> pkts, size |-> size]
NoDatagram == Datagram(<<>>, 0)

Returned(s) == [s |-> s, kind |-> "return", dgram |-> NoDatagram]
Raised(s) == [s |-> s, kind |-> "raise", dgram |-> NoDatagram]
Yielded(s, dgram) == [s |-> s, kind |-> "yield", dgram |-> dgram]

\* padding that forgets the AEAD tag
InitialPaddingNoTag(tell) == PACKET_MAX_SIZE - tell

\* line 220: the zero bytes pushed after the CRYPTO frame of an Initial
InitialPadding(tell) == PACKET_MAX_SIZE - AEAD_TAG_SIZE - tell

\* lines 223-226 and 176-179: the ACK frame is written when send_ack is set
\* and the epoch's range set is not empty
WritesAck(s, epoch) == s.send_ack /\ s.ack[epoch] # {}

\* QuicConnection._write_handshake up to its yield.  The frame types are
\* one-byte varints; the packet buffer holds PACKET_MAX_SIZE bytes and a
\* push past its capacity raises.
_write_handshake(s, epoch) ==
    LET crypto == s.crypto[epoch]
        packet_type == IF epoch = "INITIAL" THEN PACKET_TYPE_INITIAL
                       ELSE PACKET_TYPE_HANDSHAKE
        header_size == LongHeaderSize(packet_type, s.peer_cid, s.host_cid)
        crypto_end == header_size + VarintSize(6) + CryptoFrameOverhead
                        + s.send_buffer.len
        padding == IF epoch = "INITIAL" THEN InitialPadding(crypto_end) ELSE 0
        with_ack == WritesAck(s, epoch)
        packet_size == crypto_end + padding
                         + (IF with_ack
                            THEN VarintSize(2) + AckFrameSize(s.ack[epoch])
                            ELSE 0)
        drained == [s EXCEPT !.send_buffer = EmptyBuffer]
        frames == <<CRYPTO(s.send_buffer.data)>>
                    \o (IF padding > 0 THEN <<PADDING>> ELSE <<>>)
                    \o (IF with_ack THEN <<ACK(s.ack[epoch])>> ELSE <<>>)
    IN IF ~is_valid(crypto.send) \/ s.send_buffer.len = 0
       THEN Returned(s)
       ELSE IF crypto_end > PACKET_MAX_SIZE
       THEN Raised(s)                 \* line 213: the data does not fit
       ELSE IF padding < 0
       THEN Raised(drained)           \* line 220: bytes() of a negative count
       ELSE IF packet_size > PACKET_MAX_SIZE
       THEN Raised(drained)           \* line 225: the ACK frame does not fit
       ELSE Yielded(
              [drained EXCEPT !.send_ack = IF with_ack THEN FALSE ELSE @],
              Datagram(<<Packet(packet_type, s.peer_cid, s.host_cid,
                                s.packet_number[epoch] % 65536,
                                crypto.send, frames)>>,
                       packet_size + AEAD_TAG_SIZE))

\* QuicConnection._write_application up to its yield
_write_application(s) ==
    LET epoch == "ONE_RTT"
        crypto == s.crypto[epoch]
        header_size == ShortHeaderSize(s.peer_cid)
        with_ack == WritesAck(s, epoch)
        packet_size == header_size
                         + (IF with_ack
                            THEN VarintSize(2) + AckFrameSize(s.ack[epoch])
                            ELSE 0)
        frames == IF with_ack THEN <<ACK(s.ack[epoch])>> ELSE <<>>
    IN IF ~is_valid(crypto.send) \/ s.ack[epoch] = {}
       THEN Returned(s)
       ELSE Yielded(
              [s EXCEPT !.send_ack = IF with_ack THEN FALSE ELSE @],
              Datagram(<<Packet(PACKET_TYPE_SHORT, s.peer_cid, "",
                                s.packet_number[epoch] % 65536,
                                crypto.send, frames)>>,
                       packet_size + AEAD_TAG_SIZE))

\* a packet number that is not advanced
AfterYieldNoIncrement(s, epoch) == s

\* the ranges forgotten once a packet of the epoch has left
AfterYieldForgetsAck(s, epoch) ==
    [s EXCEPT !.packet_number[epoch] = @ + 1, !.ack[epoch] = {}]

\* lines 186 and 240: what runs when the generator is resumed after a yield
AfterYield(s, epoch) == [s EXCEPT !.packet_number[epoch] = @ + 1]

WriteEpoch(s, epoch) ==
    IF epoch = "ONE_RTT" THEN _write_application(s) ELSE _write_handshake(s, epoch)

EpochIndex(epoch) == CHOOSE i \in 1..3 : EpochOrder[i] = epoch

\* QuicConnection.pending_datagrams from the i-th epoch on, up to the next
\* yield, the end of the sequence or an exception; at is the epoch whose
\* yield the generator is suspended at ("idle": the generator is over)
RECURSIVE RunFrom(_, _)
\* the writer of the i-th epoch ended with outcome r
AfterWrite(r, i) ==
    CASE r.kind = "return" -> RunFrom(r.s, i + 1)
      [] r.kind = "yield" ->
           [s |-> r.s, kind |-> "yield", at |-> EpochOrder[i],
            dgram |-> r.dgram]
      [] OTHER ->
           [s |-> r.s, kind |-> "raise", at |-> "idle", dgram |-> NoDatagram]
RunFrom(s, i) ==
    IF i > Len(EpochOrder)
    THEN [s |-> s, kind |-> "stop", at |-> "idle", dgram |-> NoDatagram]
    ELSE AfterWrite(WriteEpoch(s, EpochOrder[i]), i)

\* one next() on the generator of pending_datagrams; at = "idle" starts a
\* new invocation
pending_datagrams(s, at) ==
    IF at = "idle" THEN RunFrom(s, 1)
    ELSE RunFrom(AfterYield(s, at), EpochIndex(at) + 1)

\* ------------------------------------------------------------ inputs
\* lengths of what the TLS engine writes in one call: one that leaves room
\* for padding, one that fills a packet
TlsLens == {300, 1240}
TlsOptions == [n : TlsLens, ticket : BOOLEAN]
DefaultOption == [n |-> 300, ticket |-> FALSE]

\* the source CID a peer puts in its long headers
PeerCid == "p1"

\* what a peer of the given role sends in CRYPTO frames
PeerMessages(role) ==
    IF role = "server" THEN {"ServerHello", "ServerFlight"}
    ELSE {"ClientHello", "ClientFinished"}

\* payloads without handshake bytes
PlainPayloads == {<<ACK({0})>>, <<PING>>, <<PING, UNKNOWN>>, <<TRUNCATED>>}

\* payloads with the handshake bytes a connection of the given role is sent
CryptoPayloads(role) == {<<CRYPTO(<<m>>)>> : m \in PeerMessages(Other(role))}
CutCryptoPayloads(role) ==
    {<<CRYPTO(<<m>>), TRUNCATED>> : m \in PeerMessages(Other(role))}

\* the packets a connection of the given role is handed: Initial packets
\* protected with the keys of a destination CID, Handshake and short-header
\* packets protected with the peer's traffic keys, and one packet of each
\* of these two types protected with other keys
Packets(role) ==
    {Packet(PACKET_TYPE_INITIAL, cid, PeerCid, 0,
            InitialKey(cid, Other(role)), f) :
        cid \in CidPool,
        f \in PlainPayloads \cup CryptoPayloads(role) \cup CutCryptoPayloads(role)}
      \cup {Packet(PACKET_TYPE_HANDSHAKE, "c1", PeerCid, pn,
                   TrafficKey("HANDSHAKE", Other(role)), f) :
              pn \in 0..MaxPn, f \in PlainPayloads \cup CryptoPayloads(role)}
      \cup {Packet(PACKET_TYPE_SHORT, "c1", "", pn,
                   TrafficKey("ONE_RTT", Other(role)), f) :
              pn \in 0..MaxPn, f \in PlainPayloads}
      \cup {Packet(PACKET_TYPE_HANDSHAKE, "c1", PeerCid, 0, BadKey, <<PING>>),
            Packet(PACKET_TYPE_SHORT, "c1", "", 0, BadKey, <<PING>>)}

\* a datagram too short for a header, or with a malformed one
BadHeader == [Packet(PACKET_TYPE_INITIAL, "c1", PeerCid, 0, BadKey, <<>>)
                EXCEPT !.hdr_ok = FALSE]

\* coalesced datagrams: an Initial packet, or a Handshake packet that ends
\* with an unknown frame, followed by a Handshake packet
FirstPackets(role) ==
    {p \in Packets(role) :
        /\ p.ptype = PACKET_TYPE_INITIAL /\ p.dcid = "c1"
        /\ p.frames \in {<<PING, UNKNOWN>>} \cup CryptoPayloads(role)}
      \cup {p \in Packets(role) :
               /\ p.ptype = PACKET_TYPE_HANDSHAKE /\ p.pn = 1
               /\ p.key # BadKey /\ p.frames = <<PING, UNKNOWN>>}
      \cup {BadHeader}
SecondPackets(role) ==
    {p \in Packets(role) :
        /\ p.ptype = PACKET_TYPE_HANDSHAKE /\ p.pn = 0 /\ p.key # BadKey
        /\ p.frames \in {<<PING>>, <<CRYPTO(<<"ServerFlight">>)>>,
                         <<CRYPTO(<<"ClientFinished">>)>>}}

Datagrams(role) ==
    {Datagram(<<p>>, 0) : p \in Packets(role) \cup {BadHeader}}
      \cup {Datagram(<<p, q>>, 0) :
              p \in FirstPackets(role), q \in SecondPackets(role)}

\* the datagrams of each role, computed once
DatagramsOf == [role \in Role |-> Datagrams(role)]

HasCrypto(data) ==
    \E i \in 1..Len(data.pkts) : \E j \in 1..Len(data.pkts[i].frames) :
        data.pkts[i].frames[j].type = "CRYPTO"

\* the choices of the TLS engine that matter for a datagram
OptionsFor(role, data) ==
    IF ~HasCrypto(data) THEN {DefaultOption}
    ELSE IF role = "client" THEN {o \in TlsOptions : ~o.ticket}
    ELSE TlsOptions

\* ------------------------------------------------------------ state
VARIABLES
    conn,     \* the QuicConnection objects, by role
    gen,      \* per connection: the epoch whose yield its pending_datagrams
              \* generator is suspended at, or "idle"
    out,      \* per connection: the datagrams its caller holds from the
              \* current (or just finished) pending_datagrams invocation
    sent,     \* per connection and epoch: the packet numbers put on the wire
    result,   \* per connection: the last call and how it ended
    net,      \* per connection: the datagrams in flight to it
    unacked   \* per connection and epoch: the packet numbers of the
              \* processed packets that datagram_received counted as not
              \* ack-only and that no ACK frame emitted at that epoch covers

vars == <<conn, gen, out, sent, result, net, unacked>>

Objects == DOMAIN conn

Result(op, exc, done, eliciting, scid, nokey, unknown) ==
    [op |-> op, exc |-> exc, done |-> done, eliciting |-> eliciting,
     scid |-> scid, nokey |-> nokey, unknown |-> unknown]
CallResult(op, exc) == Result(op, exc, 0, FALSE, "-", "-", 0)

\* the bookkeeping of freshly constructed connections
Fresh(roles) ==
    /\ gen = [c \in roles |-> "idle"]
    /\ out = [c \in roles |-> <<>>]
    /\ sent = [c \in roles |-> [e \in Epoch |-> <<>>]]
    /\ result = [c \in roles |-> CallResult("__init__", NoError)]
    /\ net = [c \in roles |-> <<>>]
    /\ unacked = [c \in roles |-> [e \in Epoch |-> {}]]

\* one connection, of either role, facing an arbitrary peer
Init ==
    \E role \in Role, host \in HostPool, peer \in CidPool :
        /\ conn = [c \in {role} |-> NewConnection(role = "client", host, peer)]
        /\ Fresh({role})

\* ------------------------------------------------------------ actions
\* connection_made(): the transport calls it once, before the connection
\* has set up any keys
ConnectionMade(c) ==
    /\ ~conn[c].crypto_initialized
    /\ \E n \in TlsLens :
         \E r \in {connection_made(conn[c], [n |-> n, ticket |-> FALSE])} :
            /\ conn' = [conn EXCEPT ![c] = r.s]
            /\ result' = [result EXCEPT ![c] =
                 CallResult("connection_made",
                            IF r.ok THEN NoError ELSE "TlsError")]
    /\ UNCHANGED <<gen, out, sent, net, unacked>>

\* a packet for which _payload_received returns False: line 143, reached
\* for a CRYPTO frame
HasCryptoFrame(packet) ==
    \E j \in 1..Len(packet.frames) : packet.frames[j].type = "CRYPTO"

\* the packet numbers of epoch e among the first done packets of a
\* datagram that are not ack-only
NotAckOnlyAt(data, done, e) ==
    {data.pkts[i].pn :
        i \in {k \in 1..done : /\ get_epoch(data.pkts[k].ptype) = e
                                /\ HasCryptoFrame(data.pkts[k])}}

\* the packet numbers the ACK frames of the datagrams of epoch e cover
AckedAt(held, e) ==
    UNION {UNION {held[i].pkts[1].frames[j].ranges :
                    j \in 1..Len(held[i].pkts[1].frames)} :
             i \in {k \in 1..Len(held) :
                      get_epoch(held[k].pkts[1].ptype) = e}}

\* the effect of datagram_received(data) on connection c
Receive(c, data) ==
    \E opt \in OptionsFor(c, data) :
        \E r \in {datagram_received(conn[c], data, opt)} :
           /\ conn' = [conn EXCEPT ![c] = r.s]
           /\ result' = [result EXCEPT ![c] =
                Result("datagram_received", r.exc, r.done, r.eliciting,
                       r.scid, r.nokey, r.unknown)]
           /\ unacked' = [unacked EXCEPT ![c] =
                [e \in Epoch |-> @[e] \cup NotAckOnlyAt(data, r.done, e)]]

\* datagram_received(data) with a datagram from the peer
DatagramReceived(c) ==
    /\ \E data \in DatagramsOf[c] : Receive(c, data)
    /\ out' = [out EXCEPT ![c] = IF gen[c] = "idle" THEN <<>> ELSE @]
    /\ UNCHANGED <<gen, sent, net>>

\* a new invocation starts only while the send packet numbers are in bounds
MayPull(c) ==
    \/ gen[c] # "idle"
    \/ \A e \in Epoch : conn[c].packet_number[e] < MaxSend

\* the effect of one next() on the generator of c.pending_datagrams(),
\* from the state s, position at and datagrams held so far
Held(r, held) ==
    [s |-> r.s, at |-> r.at, kind |-> r.kind,
     held |-> IF r.kind = "yield" THEN Append(held, r.dgram) ELSE held]
Pulled(c, s, at, held) == Held(pending_datagrams(s, at), held)

\* for datagram in c.pending_datagrams(): the generator pulled until it
\* is over
RECURSIVE DrainLoop(_, _, _, _)
DrainNext(c, r) ==
    IF r.kind = "yield" THEN DrainLoop(c, r.s, r.at, r.held) ELSE r
DrainLoop(c, s, at, held) == DrainNext(c, Pulled(c, s, at, held))

\* the packet numbers of the datagrams of epoch e among the ones held
NumbersOf(held, e) ==
    LET F[i \in 0..Len(held)] ==
          IF i = 0 THEN <<>>
          ELSE IF get_epoch(held[i].pkts[1].ptype) = e
               THEN Append(F[i - 1], held[i].pkts[1].pn)
               ELSE F[i - 1]
    IN F[Len(held)]

\* the caller drains pending_datagrams()
Drain(c) ==
    /\ gen[c] = "idle"
    /\ MayPull(c)
    /\ \E r \in {DrainLoop(c, conn[c], "idle", <<>>)} :
          /\ conn' = [conn EXCEPT ![c] = r.s]
          /\ out' = [out EXCEPT ![c] = r.held]
          /\ sent' = [sent EXCEPT ![c] =
               [e \in Epoch |-> @[e] \o NumbersOf(r.held, e)]]
          /\ unacked' = [unacked EXCEPT ![c] =
               [e \in Epoch |-> @[e] \ AckedAt(r.held, e)]]
          /\ result' = [result EXCEPT ![c] =
               CallResult("pending_datagrams",
                          IF r.kind = "raise" THEN "BufferError" ELSE NoError)]
    /\ UNCHANGED <<gen, net>>

Next ==
    \/ \E c \in Objects : ConnectionMade(c)
    \/ \E c \in Objects : DatagramReceived(c)
    \/ \E c \in Objects : Drain(c)

Spec == Init /\ [][Next]_vars

\* ------------------------------------------------------------ lazy pulls
\* pending_datagrams is a generator: the caller takes its datagrams one
\* next() at a time and may drop it while it is suspended at a yield.
\* The datagrams handed to the connection between invocations: single
\* packets with number 0, with handshake bytes or a PING
LazyDatagrams(role) ==
    {Datagram(<<p>>, 0) :
        p \in {q \in Packets(role) :
                 /\ q.pn = 0 /\ q.key # BadKey /\ q.dcid = "c1"
                 /\ q.frames \in CryptoPayloads(role) \cup {<<PING>>}}}
LazyDatagramsOf == [role \in Role |-> LazyDatagrams(role)]

\* datagram_received(data) while no generator is suspended
LazyReceive(c) ==
    /\ gen[c] = "idle"
    /\ \E data \in LazyDatagramsOf[c] : Receive(c, data)
    /\ out' = [out EXCEPT ![c] = <<>>]
    /\ UNCHANGED <<gen, sent, net>>

\* one next() on the generator of c.pending_datagrams(); a new invocation
\* when none is suspended
LazyPull(c) ==
    /\ MayPull(c)
    /\ \A e \in Epoch : Len(sent[c][e]) <= MaxSend
    /\ \E r \in {Pulled(c, conn[c], gen[c],
                        IF gen[c] = "idle" THEN <<>> ELSE out[c])} :
          /\ conn' = [conn EXCEPT ![c] = r.s]
          /\ gen' = [gen EXCEPT ![c] = r.at]
          /\ out' = [out EXCEPT ![c] = r.held]
          /\ sent' = [sent EXCEPT ![c] =
               IF r.kind = "yield"
               THEN [@ EXCEPT ![r.at] = Append(@, r.held[Len(r.held)].pkts[1].pn)]
               ELSE @]
          /\ unacked' = [unacked EXCEPT ![c] =
               IF r.kind = "yield"
               THEN [@ EXCEPT ![r.at] =
                       @ \ AckedAt(<<r.held[Len(r.held)]>>, r.at)]
               ELSE @]
          /\ result' = [result EXCEPT ![c] =
               CallResult("pending_datagrams",
                          IF r.kind = "raise" THEN "BufferError" ELSE NoError)]
    /\ UNCHANGED net

\* the caller drops the generator while it is suspended at a yield: the
\* generator is closed there and the statements after the yield never run
Abandon(c) ==
    /\ gen[c] # "idle"
    /\ gen' = [gen EXCEPT ![c] = "idle"]
    /\ UNCHANGED <<conn, out, sent, result, net, unacked>>

NextLazy ==
    \/ \E c \in Objects : ConnectionMade(c)
    \/ \E c \in Objects : LazyReceive(c)
    \/ \E c \in Objects : LazyPull(c)
    \/ \E c \in Objects : Abandon(c)

SpecLazy == Init /\ [][NextLazy]_vars

\* ------------------------------------------------------------ exchange
\* A client and a server, each running this code, exchange their datagrams
\* in the canonical order: a side processes the datagrams it received,
\* then drains pending_datagrams.
InitExchange ==
    \E ch \in HostPool, cp \in CidPool, sh \in CidPool, sp \in CidPool :
        /\ conn = [c \in Role |-> IF c = "client"
                                  THEN NewConnection(TRUE, ch, cp)
                                  ELSE NewConnection(FALSE, sh, sp)]
        /\ Fresh(Role)

\* the transport hands c the next datagram in flight to it
Deliver(c) ==
    /\ net[c] # <<>>
    /\ Receive(c, Head(net[c]))
    /\ net' = [net EXCEPT ![c] = Tail(@)]
    /\ out' = [out EXCEPT ![c] = <<>>]
    /\ UNCHANGED <<gen, sent>>

\* c has processed what it received and sends what is pending
Transmit(c) ==
    /\ net[c] = <<>>
    /\ result[c].op \in {"connection_made", "datagram_received"}
    /\ MayPull(c)
    /\ \E r \in {DrainLoop(c, conn[c], "idle", <<>>)} :
          /\ conn' = [conn EXCEPT ![c] = r.s]
          /\ out' = [out EXCEPT ![c] = r.held]
          /\ sent' = [sent EXCEPT ![c] =
               [e \in Epoch |-> @[e] \o NumbersOf(r.held, e)]]
          /\ unacked' = [unacked EXCEPT ![c] =
               [e \in Epoch |-> @[e] \ AckedAt(r.held, e)]]
          /\ net' = [net EXCEPT ![Other(c)] = @ \o r.held]
          /\ result' = [result EXCEPT ![c] =
               CallResult("pending_datagrams",
                          IF r.kind = "raise" THEN "BufferError" ELSE NoError)]
    /\ UNCHANGED gen

NextExchange ==
    \/ \E c \in Objects : ConnectionMade(c)
    \/ \E c \in Objects : Deliver(c)
    \/ \E c \in Objects : Transmit(c)

\* the event loop keeps running the calls that are due
SpecExchange ==
    /\ InitExchange
    /\ [][NextExchange]_vars
    /\ WF_vars(NextExchange)

\* ------------------------------------------------------------ observations
EpochOf(dgram) == get_epoch(dgram.pkts[1].ptype)
FramesOf(dgram) == dgram.pkts[1].frames
HasFrame(dgram, type) ==
    \E i \in 1..Len(FramesOf(dgram)) : FramesOf(dgram)[i].type = type
\* the packet numbers a datagram acknowledges
Acknowledged(dgram) ==
    UNION {FramesOf(dgram)[i].ranges : i \in 1..Len(FramesOf(dgram))}
InitialKeysValid(c) ==
    \/ is_valid(conn[c].crypto["INITIAL"].send)
    \/ is_valid(conn[c].crypto["INITIAL"].recv)
\* the place of an epoch in the order Initial, Handshake, 1-RTT
Rank(e) == CASE e = "INITIAL" -> 1 [] e = "HANDSHAKE" -> 2 [] OTHER -> 3

\* ------------------------------------------------------------ claims

\* C1: for every epoch, packet_number equals the number of datagrams emitted
\* at that epoch once pending_datagrams has been drained, and the packet
\* numbers on the wire are 0, 1, 2, ... in this order.
C1_PacketNumbersCountDatagrams ==
    \A c \in Objects : \A e \in Epoch :
        /\ conn[c].packet_number[e] = Len(sent[c][e])
        /\ \A i \in 1..Len(sent[c][e]) : sent[c][e][i] = i - 1

C1_Witness ==
    \E c \in Objects : \E e \in Epoch :
        Len(sent[c][e]) >= 2 /\ conn[c].packet_number[e] >= 2

\* C2: after datagram_received processed a datagram with a packet that is
\* not ack-only (a frame other than PADDING and ACK), send_ack is true; after
\* pending_datagrams emitted a datagram with an ACK frame, send_ack is false.
C2_SendAckFollowsTraffic ==
    \A c \in Objects :
        /\ (result[c].op = "datagram_received" /\ result[c].eliciting)
             => conn[c].send_ack
        /\ (/\ result[c].op = "pending_datagrams"
            /\ \E i \in 1..Len(out[c]) : HasFrame(out[c][i], "ACK"))
             => ~conn[c].send_ack

\* C3: peer_cid changes only when the first packet is decrypted, to that
\* packet's source CID, with peer_cid_set going from false to true; once
\* set, neither changes again, and a call that decrypts nothing changes
\* neither.
C3_PeerCidLatchedOnce ==
    [][\A c \in Objects :
         /\ conn[c].peer_cid_set
              => /\ conn'[c].peer_cid_set
                 /\ conn'[c].peer_cid = conn[c].peer_cid
         /\ (\/ conn'[c].peer_cid # conn[c].peer_cid
             \/ conn'[c].peer_cid_set # conn[c].peer_cid_set)
              => /\ result'[c].op = "datagram_received"
                 /\ result'[c].scid # "-"
                 /\ conn'[c].peer_cid = result'[c].scid
                 /\ ~conn[c].peer_cid_set /\ conn'[c].peer_cid_set
         /\ (/\ ~conn[c].peer_cid_set
             /\ result'[c].op = "datagram_received"
             /\ result'[c].scid # "-")
              => /\ conn'[c].peer_cid_set
                 /\ conn'[c].peer_cid = result'[c].scid
      ]_vars

\* the peer CID is latched and a later packet with another source CID was
\* decrypted, or failed to decrypt
C3_Witness ==
    \E c \in Objects :
        /\ conn[c].peer_cid_set
        /\ result[c].op = "datagram_received"
        /\ result[c].scid \notin {"-", conn[c].peer_cid}

\* C4: the datagrams of one pending_datagrams invocation are ordered
\* Initial, Handshake, 1-RTT with at most one per epoch, so at most three.
C4_OneDatagramPerEpochInOrder ==
    \A c \in Objects :
        /\ Len(out[c]) <= 3
        /\ \A i \in 1..Len(out[c]) : \A j \in 1..Len(out[c]) :
             i < j => Rank(EpochOf(out[c][i])) < Rank(EpochOf(out[c][j]))

C4_Witness == \E c \in Objects : Len(out[c]) >= 2

\* C5: a fresh server that received the client's first Initial datagram
\* (packet 0 with a CRYPTO frame) and then drained has emitted exactly one
\* datagram, an Initial one with the TLS answer in a CRYPTO frame and an ACK
\* frame for packet 0, and its send_ack is false.
C5_ServerAnswersInInitial ==
    (/\ "server" \in Objects
     /\ result["server"].op = "pending_datagrams"
     /\ conn["server"].tls = "SERVER_EXPECT_FINISHED"
     /\ conn["server"].ack = [e \in Epoch |-> IF e = "INITIAL" THEN {0} ELSE {}])
      => /\ Len(out["server"]) = 1
         /\ EpochOf(out["server"][1]) = "INITIAL"
         /\ HasFrame(out["server"][1], "CRYPTO")
         /\ HasFrame(out["server"][1], "ACK")
         /\ Acknowledged(out["server"][1]) = {0}
         /\ ~conn["server"].send_ack

\* C6: every Initial datagram a client emits is PACKET_MAX_SIZE bytes long
\* after encryption (header, CRYPTO, PADDING, ACK and the AEAD tag).
C6_ClientInitialIs1280 ==
    \A c \in Objects :
        conn[c].is_client =>
            \A i \in 1..Len(out[c]) :
                EpochOf(out[c][i]) = "INITIAL"
                    => out[c][i].size = PACKET_MAX_SIZE

C6_Witness ==
    \E c \in Objects :
        /\ conn[c].is_client
        /\ \E i \in 1..Len(out[c]) :
             EpochOf(out[c][i]) = "INITIAL" /\ HasFrame(out[c][i], "PADDING")

\* C7: when datagram_received fails on a packet with a parse error or a
\* decryption error, the connection state is what it was before the packet
\* (stated for the first packet of a datagram).
C7_FailedPacketLeavesState ==
    [][\A c \in Objects :
         (/\ result'[c].op = "datagram_received"
          /\ result'[c].done = 0
          /\ result'[c].exc \in {"HeaderError", "DecryptError", "FrameError"})
           => conn'[c] = conn[c]
      ]_vars

\* C8: every 1-RTT datagram pending_datagrams emits holds an ACK frame.
C8_OneRttCarriesAck ==
    \A c \in Objects : \A i \in 1..Len(out[c]) :
        EpochOf(out[c][i]) = "ONE_RTT" => HasFrame(out[c][i], "ACK")

\* C9: the canonical exchange installs the 1-RTT secrets on both sides and
\* each side then emits a 1-RTT datagram: when the exchange is over (nothing
\* is in flight, each side has drained after the last datagram it processed
\* and no drain failed), both sides hold the 1-RTT secrets and have put a
\* 1-RTT datagram on the wire.
OneRttInstalled(c) ==
    /\ is_valid(conn[c].crypto["ONE_RTT"].send)
    /\ is_valid(conn[c].crypto["ONE_RTT"].recv)
ExchangeOver ==
    \A c \in Objects :
        /\ net[c] = <<>>
        /\ result[c].op = "pending_datagrams"
        /\ result[c].exc = NoError
C9_BothSidesReachOneRtt ==
    (Objects = Role /\ ExchangeOver)
        => \A c \in Role :
             OneRttInstalled(c) /\ sent[c]["ONE_RTT"] # <<>>

\* C10: once datagram_received has finished an Initial packet (its number
\* is in the Initial range set), and by the time a second Handshake
\* datagram has been emitted, both directions of the Initial keys are
\* invalid.
C10_InitialKeysTornDown ==
    \A c \in Objects :
        (conn[c].ack["INITIAL"] # {} \/ Len(sent[c]["HANDSHAKE"]) >= 2)
            => ~InitialKeysValid(c)

C10_Witness ==
    \E c \in Objects :
        /\ Len(sent[c]["HANDSHAKE"]) >= 2
        /\ conn[c].ack["INITIAL"] # {}
        /\ result[c].op = "pending_datagrams"

\* C11: whenever the connection encrypts or decrypts an Initial packet, that
\* direction of the Initial crypto pair holds keys: datagram_received never
\* calls decrypt_packet on an Initial context without keys, and no Initial
\* datagram is produced by a send context without keys.
C11_InitialContextValidWhenUsed ==
    \A c \in Objects :
        /\ result[c].nokey # "INITIAL"
        /\ \A i \in 1..Len(out[c]) :
             EpochOf(out[c][i]) = "INITIAL"
                 => is_valid(out[c][i].pkts[1].key)

\* C12: a decrypted packet whose payload is a PING followed by a frame of an
\* unknown type (the only payload with an unknown frame among the inputs)
\* is processed up to the unknown frame and counts as not ack-only: after
\* datagram_received the packet is in a range set and send_ack is set, so
\* that the next drain acknowledges it.
C12_PingBeforeUnknownCounts ==
    \A c \in Objects :
        (result[c].op = "datagram_received" /\ result[c].unknown # 0)
            => /\ result[c].done >= result[c].unknown
               /\ \E e \in Epoch : conn[c].ack[e] # {}
               /\ conn[c].send_ack

\* C13: _payload_received reports a packet as ack-only exactly when its
\* payload holds only PADDING and ACK frames: a datagram_received that
\* starts with send_ack false ends with send_ack true exactly when one of
\* the packets it processed holds another frame (a PING, for one).
C13_AckOnlyIsPaddingAndAck ==
    [][\A c \in Objects :
         (/\ result'[c].op = "datagram_received"
          /\ result'[c].done >= 1
          /\ conn'[c] # conn[c]
          /\ ~conn[c].send_ack)
           => (conn'[c].send_ack <=> result'[c].eliciting)
      ]_vars

\* C14: when a packet of a coalesced datagram is abandoned (its header does
\* not parse, its decryption fails, or its frames stop at an unknown frame
\* type), no later packet of the datagram is processed: after a packet was
\* abandoned at an unknown frame, datagram_received completes no later
\* packet of the datagram.
C14_NothingAfterAbandonedPacket ==
    \A c \in Objects :
        (result[c].op = "datagram_received" /\ result[c].unknown # 0)
            => result[c].done <= result[c].unknown

\* C15: a server derives its Initial keys only when it receives a client
\* Initial packet: a datagram_received whose first packet is a Handshake or
\* a short-header one (it completes no packet and fails on a receive
\* context of that epoch without keys) does not set crypto_initialized.
C15_InitialKeysFromInitialPacket ==
    [][\A c \in Objects :
         (/\ ~conn[c].is_client
          /\ ~conn[c].crypto_initialized
          /\ conn'[c].crypto_initialized
          /\ result'[c].done = 0)
           => result'[c].nokey \notin {"HANDSHAKE", "ONE_RTT"}
      ]_vars

\* C16, as stated: a pending_datagrams invocation changes nothing but the
\* send packet numbers and the TLS send buffer; peer_cid, host_cid,
\* peer_cid_set, crypto_initialized, the crypto contexts, the range sets
\* and send_ack are after it what they were before.
DrainKeeps(c) ==
    /\ conn'[c].peer_cid = conn[c].peer_cid
    /\ conn'[c].host_cid = conn[c].host_cid
    /\ conn'[c].peer_cid_set = conn[c].peer_cid_set
    /\ conn'[c].crypto_initialized = conn[c].crypto_initialized
    /\ conn'[c].crypto = conn[c].crypto
    /\ conn'[c].ack = conn[c].ack
    /\ conn'[c].tls = conn[c].tls
C16_DrainChangesCountersAndBufferOnly ==
    [][\A c \in Objects :
         result'[c].op = "pending_datagrams"
           => DrainKeeps(c) /\ conn'[c].send_ack = conn[c].send_ack
      ]_vars

\* C16, amended: a pending_datagrams invocation changes nothing but the
\* send packet numbers, the TLS send buffer and send_ack, which it can only
\* clear; the other fields are after it what they were before.
C16_DrainMayOnlyClearSendAck ==
    [][\A c \in Objects :
         result'[c].op = "pending_datagrams"
           => DrainKeeps(c) /\ (conn'[c].send_ack => conn[c].send_ack)
      ]_vars

\* a drain that wrote an ACK frame and cleared send_ack
C16_Witness ==
    \E c \in Objects :
        /\ result[c].op = "pending_datagrams"
        /\ ~conn[c].send_ack
        /\ \E i \in 1..Len(out[c]) : HasFrame(out[c][i], "ACK")
        /\ conn[c].ack["HANDSHAKE"] # {}

\* C17: the handshake bytes the TLS engine produced at an encryption level
\* leave only in a CRYPTO frame of a packet of that epoch: every message in
\* a CRYPTO frame of an emitted datagram belongs to the datagram's epoch.
C17_CryptoBytesLeaveAtTheirLevel ==
    \A c \in Objects : \A i \in 1..Len(out[c]) :
        \A j \in 1..Len(FramesOf(out[c][i])) :
            FramesOf(out[c][i])[j].type = "CRYPTO"
                => \A k \in 1..Len(FramesOf(out[c][i])[j].data) :
                     MessageLevel(FramesOf(out[c][i])[j].data[k])
                         = EpochOf(out[c][i])

\* C18: whenever send_ack is false, every packet received so far that was
\* not ack-only has had its packet number in an ACK frame emitted in a
\* packet of its own epoch: an ACK written at one epoch never clears the
\* flag while a packet of another epoch waits for its acknowledgement.
C18_ClearedFlagMeansAllAcked ==
    \A c \in Objects :
        ~conn[c].send_ack => \A e \in Epoch : unacked[c][e] = {}

\* C19: no two datagrams emitted at the same epoch carry the same packet
\* number, also when the caller stops pulling from a pending_datagrams
\* sequence right after it was handed a datagram and later starts a new
\* invocation.
C19_NoPacketNumberTwice ==
    \A c \in Objects : \A e \in Epoch :
        \A i \in 1..Len(sent[c][e]) : \A j \in 1..Len(sent[c][e]) :
            i # j => sent[c][e][i] # sent[c][e][j]

\* C20: for every amount of TLS output the send buffer holds, handshake
\* emission completes and no datagram is longer than PACKET_MAX_SIZE once
\* the AEAD tag is added: a drain raises nothing (no push past the packet
\* buffer, no negative padding) and every datagram it gave fits.
C20_HandshakeEmissionFits ==
    \A c \in Objects :
        result[c].op = "pending_datagrams"
            => /\ result[c].exc = NoError
               /\ \A i \in 1..Len(out[c]) : out[c][i].size <= PACKET_MAX_SIZE

====
